---- MODULE Spec2Model ----
(***************************************************************************)
(* Model of DSH/MIfile.py: the multi-image file store (class MIfile), the  *)
(* ROI / frame-range validators and MergeMIfiles.                          *)
(*                                                                         *)
(* Conventions                                                             *)
(*   - Python None is the string "None" for a handle slot and the empty    *)
(*     sequence <<>> for an absent zRange / cropROI list.                  *)
(*   - A numpy array is a record [shape, flat]: its shape tuple and its    *)
(*     elements in row-major (C) order.                                    *)
(*   - A file is a record [exists, data]; data is the sequence of bytes    *)
(*     that reached the file (buffered, unflushed bytes live in wbuf).     *)
(*   - A call returns a record [kind, val]; kind is "ok" or the name of    *)
(*     the exception that left the call.                                   *)
(***************************************************************************)
EXTENDS Integers, Sequences, FiniteSets, TLC

VARIABLES
    desc,     \* the Store descriptor loaded by _load_metadata (immutable)
    files,    \* the file system: file name -> [exists, data]
    rh,       \* self.ReadFileHandle: "None" or the name of the file it reads
    wh,       \* self.WriteFileHandle: "None" or the name of the file it writes
    wbuf,     \* bytes written to the write handle and not flushed yet
    nOpenR,   \* number of OS handles this Store opened 'rb' and has not closed
    nOpenW,   \* number of OS handles this Store opened 'wb' and has not closed
    res,      \* the caller's view of the last call: its arguments and outcome
    written,  \* history: the array one WriteData call wrote into the Store's
              \* freshly created file, while the file holds exactly that
    pin,      \* input of a free function (ValidateROI, MergeMIfiles)
    pout      \* what the free function returned

vars == <<desc, files, rh, wh, wbuf, nOpenR, nOpenW, res, written, pin, pout>>

(***************************************************************************)
(* Bounds of the model                                                     *)
(***************************************************************************)
MaxFrames == 2      \* largest declared frame count / frame count of an array
MaxSide == 2        \* largest frame height and width
MaxHdr == 1         \* largest declared header length (bytes)
MaxSeed == 1        \* number of distinct data patterns minus one
MaxBudget == 2      \* largest small write-buffer budget (bytes)
MaxInputs == 3      \* longest list of Merge inputs
MaxExtent == 1      \* largest extent of a Merge input along any axis
MaxRoi == 3         \* largest ROI coordinate / frame side for ValidateROI

DefaultMaxBufferSize == 100000000

FileName == "mi"                      \* self.FileName
ExportName == "exp"                   \* the mi_filename given to Export
FileNames == {FileName, ExportName}
None == "None"
NoArr == [shape |-> <<>>, flat |-> <<>>]

Min(a, b) == IF a < b THEN a ELSE b
Max(a, b) == IF a > b THEN a ELSE b

RECURSIVE Prod(_)
Prod(s) == IF s = <<>> THEN 1 ELSE Head(s) * Prod(Tail(s))

RECURSIVE Flatten(_)
Flatten(ss) == IF ss = <<>> THEN <<>> ELSE Head(ss) \o Flatten(Tail(ss))

\* Python's range(a, b, s) for s >= 1
PyRange(a, b, s) ==
    IF b <= a THEN <<>>
    ELSE [k \in 1..(((b - a - 1) \div s) + 1) |-> a + (k - 1) * s]

(***************************************************************************)
(* Pixel formats: _data_depth, _data_types, struct.pack / struct.unpack    *)
(***************************************************************************)
DataDepth(fmt) ==
    CASE fmt \in {"b", "B", "?"} -> 1
      [] fmt \in {"h", "H"} -> 2
      [] fmt \in {"i", "I", "f"} -> 4
      [] fmt = "d" -> 8

IsSigned(fmt) == fmt \in {"b", "h", "i"}

\* astype(dtype) followed by struct.pack of one integer of d bytes: the value
\* wrapped to d bytes, least significant byte first (native little-endian).
RECURSIVE PackInt(_, _)
PackInt(v, d) ==
    IF d = 0 THEN <<>> ELSE <<v % 256>> \o PackInt(v \div 256, d - 1)

\* struct.unpack of one integer from its bytes
RECURSIVE UnpackInt(_, _)
UnpackInt(bs, signed) ==
    IF Len(bs) = 1
    THEN (IF signed /\ bs[1] >= 128 THEN bs[1] - 256 ELSE bs[1])
    ELSE Head(bs) + 256 * UnpackInt(Tail(bs), signed)

\* MIfile._imgs_to_bytes(data, data_format, do_flatten=True)
ImgsToBytes(data, fmt) ==
    LET d == DataDepth(fmt)
    IN [k \in 1..(Len(data.flat) * d) |->
            PackInt(data.flat[((k - 1) \div d) + 1], d)[((k - 1) % d) + 1]]

(***************************************************************************)
(* The descriptor (MIfile._load_metadata)                                  *)
(***************************************************************************)
ImgNumber == desc.Shape[1]
ImgHeight == desc.Shape[2]
ImgWidth == desc.Shape[3]
PxPerImg == ImgHeight * ImgWidth
PixelDepth == DataDepth(desc.PixelFormat)

\* MIfile._get_offset
GetOffset(img_idx, row_idx, col_idx) ==
    desc.hdrSize + (img_idx * PxPerImg + row_idx * ImgWidth + col_idx) * PixelDepth

(***************************************************************************)
(* Region / range validators                                               *)
(***************************************************************************)
\* ValidateROI with the left bound tested by <= instead of <
ValidateROILeftInclusive(ROI, ImageShape, replaceNone) ==
    IF ROI = <<>>
    THEN IF replaceNone
         THEN [kind |-> "ok", val |-> <<0, 0, ImageShape[2], ImageShape[1]>>]
         ELSE [kind |-> "ok", val |-> <<>>]
    ELSE IF ~(ROI[1] >= 0 /\ ROI[1] <= ImageShape[2])
         THEN [kind |-> "AssertionError", val |-> <<>>]
    ELSE IF ~(ROI[2] >= 0 /\ ROI[2] < ImageShape[1])
         THEN [kind |-> "AssertionError", val |-> <<>>]
    ELSE IF ~((IF ROI[3] < 0 THEN ImageShape[2] - ROI[1] ELSE ROI[3]) + ROI[1] <= ImageShape[2])
         THEN [kind |-> "AssertionError", val |-> <<>>]
    ELSE IF ~((IF ROI[4] < 0 THEN ImageShape[1] - ROI[2] ELSE ROI[4]) + ROI[2] <= ImageShape[1])
         THEN [kind |-> "AssertionError", val |-> <<>>]
    ELSE [kind |-> "ok",
          val |-> <<ROI[1], ROI[2],
                    IF ROI[3] < 0 THEN ImageShape[2] - ROI[1] ELSE ROI[3],
                    IF ROI[4] < 0 THEN ImageShape[1] - ROI[2] ELSE ROI[4]>>]

\* ValidateROI(ROI, ImageShape, replaceNone); ImageShape = <<rows, columns>>
ValidateROI(ROI, ImageShape, replaceNone) ==
    IF ROI = <<>>
    THEN IF replaceNone
         THEN [kind |-> "ok", val |-> <<0, 0, ImageShape[2], ImageShape[1]>>]
         ELSE [kind |-> "ok", val |-> <<>>]
    ELSE IF ~(ROI[1] >= 0 /\ ROI[1] < ImageShape[2])
         THEN [kind |-> "AssertionError", val |-> <<>>]
    ELSE IF ~(ROI[2] >= 0 /\ ROI[2] < ImageShape[1])
         THEN [kind |-> "AssertionError", val |-> <<>>]
    ELSE LET w == IF ROI[3] < 0 THEN ImageShape[2] - ROI[1] ELSE ROI[3]
             h == IF ROI[4] < 0 THEN ImageShape[1] - ROI[2] ELSE ROI[4]
         IN IF ~(w + ROI[1] <= ImageShape[2])
            THEN [kind |-> "AssertionError", val |-> <<>>]
            ELSE IF ~(h + ROI[2] <= ImageShape[1])
            THEN [kind |-> "AssertionError", val |-> <<>>]
            ELSE [kind |-> "ok", val |-> <<ROI[1], ROI[2], w, h>>]

\* Validate_zRange(zRange, zSize, replaceNone=True)
Validate_zRange(zRange, zSize) ==
    IF zRange = <<>> THEN <<0, zSize, 1>>
    ELSE LET e == IF zRange[2] < 0 THEN zSize ELSE zRange[2]
         IN <<zRange[1], e, IF Len(zRange) < 3 THEN 1 ELSE zRange[3]>>

(***************************************************************************)
(* The Store's operations as functions of the Store's mutable state s:     *)
(* [files, rh, wh, wbuf, nOpenR, nOpenW, io, chunks].  io is the list of   *)
(* file operations the running call has performed so far, chunks the       *)
(* element count of each write call it issued.  Every operation returns    *)
(* [s, kind, val].                                                         *)
(***************************************************************************)
Cur ==
    [files |-> files, rh |-> rh, wh |-> wh, wbuf |-> wbuf,
     nOpenR |-> nOpenR, nOpenW |-> nOpenW, io |-> <<>>, chunks |-> <<>>]

Out(s, kind, val) == [s |-> s, kind |-> kind, val |-> val]

\* OpenForReading without the test for a handle already held
OpenForReadingAgain(s, fName) ==
    IF ~s.files[IF fName = None THEN FileName ELSE fName].exists
    THEN Out(s, "FileNotFoundError", NoArr)
    ELSE Out([s EXCEPT !.rh = IF fName = None THEN FileName ELSE fName,
                       !.nOpenR = @ + 1, !.io = Append(@, "open_r")], "ok", NoArr)

\* MIfile.OpenForReading(fName=None)
OpenForReading(s, fName) ==
    IF s.rh # None THEN Out(s, "ok", NoArr)
    ELSE IF ~s.files[IF fName = None THEN FileName ELSE fName].exists
    THEN Out(s, "FileNotFoundError", NoArr)
    ELSE Out([s EXCEPT !.rh = IF fName = None THEN FileName ELSE fName,
                       !.nOpenR = @ + 1, !.io = Append(@, "open_r")], "ok", NoArr)

\* WriteFileHandle.close(): the buffered bytes reach the file
CloseWriteHandle(s) ==
    [s EXCEPT !.files[s.wh].data = @ \o s.wbuf, !.wbuf = <<>>, !.wh = None,
              !.nOpenW = @ - 1, !.io = Append(@, "close_w")]

\* ReadFileHandle.close()
CloseReadHandle(s) ==
    [s EXCEPT !.rh = None, !.nOpenR = @ - 1, !.io = Append(@, "close_r")]

\* MIfile.Close, its first statement
CloseFirst(s, read) == IF read /\ s.wh # None THEN CloseWriteHandle(s) ELSE s

\* MIfile.Close, its second statement
CloseSecond(s, write) == IF write /\ s.rh # None THEN CloseReadHandle(s) ELSE s

\* MIfile.Close(read=True, write=True)
Close(s, read, write) == CloseSecond(CloseFirst(s, read), write)

\* OpenForWriting: open(fName, 'wb') unless a write handle is held
OpenWriteHandle(s, f) ==
    IF s.wh = None
    THEN [s EXCEPT !.wh = f, !.files[f] = [exists |-> TRUE, data |-> <<>>],
                   !.nOpenW = @ + 1, !.io = Append(@, "open_w")]
    ELSE s

\* OpenForWriting: the packed header records are written to the handle
WriteHeaderRecords(s, WriteHeader) ==
    IF WriteHeader = <<>> THEN s
    ELSE [s EXCEPT !.wbuf = @ \o Flatten([k \in 1..Len(WriteHeader) |->
                       PackInt(WriteHeader[k].value, DataDepth(WriteHeader[k].format))]),
                   !.io = Append(@, "write")]

\* MIfile.OpenForWriting(fName=None, WriteHeader=None); WriteHeader is a
\* list of [format, value] records, <<>> when absent
OpenForWriting(s, fName, WriteHeader) ==
    Out(WriteHeaderRecords(OpenWriteHandle(s, IF fName = None THEN FileName ELSE fName),
                           WriteHeader), "ok", NoArr)

\* ReadFileHandle.read(bytes_to_read) at seek_pos of a file of flen bytes:
\* the number of bytes it returns
BytesRead(flen, seek_pos, bytes_to_read) ==
    IF bytes_to_read < 0 THEN Max(0, flen - seek_pos)
    ELSE Min(Max(0, flen - seek_pos), bytes_to_read)

\* struct.unpack of px_num values of d bytes from the bytes of F at seek_pos
UnpackPixels(F, seek_pos, px_num, d, signed) ==
    [shape |-> <<px_num>>,
     flat |-> [k \in 1..px_num |->
                  UnpackInt(SubSeq(F, seek_pos + (k - 1) * d + 1, seek_pos + k * d), signed)]]

\* _read_pixels without the length test: it unpacks the values it got
ReadPixelsShort(s, px_num, seek_pos) ==
    IF s.rh = None THEN Out(s, "AttributeError", NoArr)
    ELSE IF seek_pos < 0 THEN Out(s, "OSError", NoArr)
    ELSE IF px_num < 0
    THEN Out([s EXCEPT !.io = Append(@, "read")], "StructError", NoArr)
    ELSE Out([s EXCEPT !.io = Append(@, "read")], "ok",
             UnpackPixels(s.files[s.rh].data, seek_pos,
                          BytesRead(Len(s.files[s.rh].data), seek_pos,
                                    px_num * PixelDepth) \div PixelDepth,
                          PixelDepth, IsSigned(desc.PixelFormat)))

\* MIfile._read_pixels(px_num, seek_pos)
ReadPixels(s, px_num, seek_pos) ==
    IF s.rh = None THEN Out(s, "AttributeError", NoArr)
    ELSE IF seek_pos < 0 THEN Out(s, "OSError", NoArr)
    ELSE IF BytesRead(Len(s.files[s.rh].data), seek_pos, px_num * PixelDepth)
                < px_num * PixelDepth
    THEN Out([s EXCEPT !.io = Append(@, "read")], "EOFError", NoArr)
    ELSE IF px_num < 0
    THEN Out([s EXCEPT !.io = Append(@, "read")], "StructError", NoArr)
    ELSE Out([s EXCEPT !.io = Append(@, "read")], "ok",
             UnpackPixels(s.files[s.rh].data, seek_pos, px_num, PixelDepth,
                          IsSigned(desc.PixelFormat)))

\* numpy reshape of a successful read
Reshape(r, shape) ==
    IF r.kind # "ok" THEN r
    ELSE IF (\E k \in 1..Len(shape) : shape[k] < 0) \/ Prod(shape) # Len(r.val.flat)
         THEN Out(r.s, "ValueError", NoArr)
         ELSE Out(r.s, "ok", [shape |-> shape, flat |-> r.val.flat])

\* GetStack once imgs_num is resolved
GetStackN(s, start_idx, n) ==
    Reshape(ReadPixels(s, n * PxPerImg, GetOffset(start_idx, 0, 0)),
            <<n, ImgHeight, ImgWidth>>)

\* MIfile.GetStack(start_idx=0, imgs_num=-1)
GetStack(s, start_idx, imgs_num) ==
    GetStackN(s, start_idx, IF imgs_num < 0 THEN ImgNumber - start_idx ELSE imgs_num)

\* np.asarray of a list of equally shaped arrays
AsArray(list) ==
    IF list = <<>> THEN [shape |-> <<0>>, flat |-> <<>>]
    ELSE [shape |-> <<Len(list)>> \o list[1].shape,
          flat |-> Flatten([k \in 1..Len(list) |-> list[k].flat])]

\* np.asarray(res) once the loop that filled the list res has ended
ListToArray(l) == IF l.kind # "ok" THEN l ELSE Out(l.s, "ok", AsArray(l.val))

\* res.append(v) seen from the end of the loop: v before what the remaining
\* iterations appended
Prepend(v, rest) ==
    IF rest.kind # "ok" THEN rest ELSE Out(rest.s, "ok", <<v>> \o rest.val)

\* the row-by-row loop of GetImage: one read per row of rows
RECURSIVE ReadRows(_, _, _, _, _)
ReadRowsNext(r, img_idx, rows, col, width) ==
    IF r.kind # "ok" THEN r
    ELSE Prepend(r.val, ReadRows(r.s, img_idx, Tail(rows), col, width))

ReadRows(s, img_idx, rows, col, width) ==
    IF rows = <<>> THEN Out(s, "ok", <<>>)
    ELSE ReadRowsNext(ReadPixels(s, width, GetOffset(img_idx, Head(rows), col)),
                      img_idx, rows, col, width)

\* GetImage with a validated ROI
GetImageROI(s, img_idx, roi) ==
    IF roi[1] = 0 /\ roi[3] = ImgWidth
    THEN Reshape(ReadPixels(s, roi[3] * roi[4], GetOffset(img_idx, roi[2], roi[1])),
                 <<roi[4], roi[3]>>)
    ELSE ListToArray(ReadRows(s, img_idx, PyRange(roi[2], roi[2] + roi[4], 1),
                              roi[1], roi[3]))

\* GetImage after self.ValidateROI(cropROI) returned or raised v
GetImageValidated(s, img_idx, v) ==
    IF v.kind # "ok" THEN Out(s, v.kind, NoArr) ELSE GetImageROI(s, img_idx, v.val)

\* MIfile.GetImage(img_idx, cropROI=None)
GetImage(s, img_idx, cropROI) ==
    IF cropROI = <<>>
    THEN Reshape(GetStack(s, img_idx, 1), <<ImgHeight, ImgWidth>>)
    ELSE GetImageValidated(s, img_idx,
                           ValidateROI(cropROI, <<ImgHeight, ImgWidth>>, FALSE))

\* the general path of Read: one GetImage per index of idxs
RECURSIVE ReadImages(_, _, _)
ReadImagesNext(r, idxs, cropROI) ==
    IF r.kind # "ok" THEN r
    ELSE Prepend(r.val, ReadImages(r.s, Tail(idxs), cropROI))

ReadImages(s, idxs, cropROI) ==
    IF idxs = <<>> THEN Out(s, "ok", <<>>)
    ELSE ReadImagesNext(GetImage(s, Head(idxs), cropROI), idxs, cropROI)

\* Read: the fast path or the general path, z being the validated range
ReadFrames(s, z, cropROI) ==
    IF z[3] = 1 /\ cropROI = <<>>
    THEN GetStack(s, z[1], z[2] - z[1])
    ELSE ListToArray(ReadImages(s, PyRange(z[1], z[2], z[3]), cropROI))

\* Read: the closing statements
ReadEnd(r, closeAfter) ==
    IF r.kind # "ok" THEN r
    ELSE IF closeAfter THEN Out(Close(r.s, TRUE, TRUE), "ok", r.val)
    ELSE r

\* Read after self.OpenForReading() returned or raised o
ReadOpened(o, zRange, cropROI, closeAfter) ==
    IF o.kind # "ok" THEN o
    ELSE ReadEnd(ReadFrames(o.s, Validate_zRange(zRange, ImgNumber), cropROI), closeAfter)

\* MIfile.Read(zRange=None, cropROI=None, closeAfter=False)
Read(s, zRange, cropROI, closeAfter) ==
    ReadOpened(OpenForReading(s, None), zRange, cropROI, closeAfter)

\* sys.getsizeof of an array held in the Store's pixel type: its data bytes
\* (the interpreter's fixed per-object overhead is left out)
GetSizeOf(nElems) == nElems * PixelDepth

\* a slice that always starts at the first frame: data_arr[0:j-i]
FrameSliceFromStart(data, i, j) ==
    [shape |-> <<j - i>> \o Tail(data.shape),
     flat |-> SubSeq(data.flat, 1, (j - i) * Prod(Tail(data.shape)))]

\* data_arr[i:j]
FrameSlice(data, i, j) ==
    [shape |-> <<j - i>> \o Tail(data.shape),
     flat |-> SubSeq(data.flat, i * Prod(Tail(data.shape)) + 1, j * Prod(Tail(data.shape)))]

\* one WriteFileHandle.write(_imgs_to_bytes(chunk)) call
WriteChunk(s, chunk) ==
    [s EXCEPT !.wbuf = @ \o ImgsToBytes(chunk, desc.PixelFormat),
              !.io = Append(@, "write"),
              !.chunks = Append(@, Len(chunk.flat))]

\* the chunk loop of WriteData, starts being range(0, len(data_arr), xsec_per_buffer)
RECURSIVE WriteChunks(_, _, _, _)
WriteChunks(s, data, starts, xsec_per_buffer) ==
    IF starts = <<>> THEN s
    ELSE WriteChunks(
            WriteChunk(s, FrameSlice(data, Head(starts),
                                     Min(Head(starts) + xsec_per_buffer, data.shape[1]))),
            data, Tail(starts), xsec_per_buffer)

\* WriteFileHandle.flush()
Flush(s) ==
    [s EXCEPT !.files[s.wh].data = @ \o s.wbuf, !.wbuf = <<>>,
              !.io = Append(@, "flush")]

\* WriteData: xsec_per_buffer for cross-sections of n_elem_xsec elements
XsecPerBuffer(n_elem_xsec) == Max(1, desc.MaxBufferSize \div n_elem_xsec)

\* WriteData: the closing statements
WriteDataEnd(s, closeAfter) ==
    IF closeAfter THEN Out(Close(s, TRUE, TRUE), "ok", NoArr)
    ELSE Out(Flush(s), "ok", NoArr)

\* WriteData once the write handle is open
WriteDataOpened(s, data_arr, closeAfter) ==
    IF GetSizeOf(Len(data_arr.flat)) > desc.MaxBufferSize
    THEN IF GetSizeOf(Prod(Tail(data_arr.shape))) > desc.MaxBufferSize
         THEN Out(s, "IOError", NoArr)
         ELSE WriteDataEnd(
                 WriteChunks(s, data_arr,
                             PyRange(0, data_arr.shape[1],
                                     XsecPerBuffer(Prod(Tail(data_arr.shape)))),
                             XsecPerBuffer(Prod(Tail(data_arr.shape)))),
                 closeAfter)
    ELSE WriteDataEnd(WriteChunk(s, data_arr), closeAfter)

\* MIfile.WriteData(data_arr, closeAfter=True)
WriteData(s, data_arr, closeAfter) ==
    WriteDataOpened(OpenForWriting(s, None, <<>>).s, data_arr, closeAfter)

\* Export after self.Read(zRange, cropROI) returned or raised r; the metadata
\* file is written by the Config collaborator, outside the Store
ExportChunk(r) == IF r.kind # "ok" THEN r ELSE WriteData(r.s, r.val, TRUE)

\* MIfile.Export(mi_filename, metadata_filename, zRange=None, cropROI=None)
Export(s, mi_filename, zRange, cropROI) ==
    ExportChunk(Read(OpenForWriting(s, mi_filename, <<>>).s, zRange, cropROI, FALSE))

(***************************************************************************)
(* Inputs of the model                                                     *)
(***************************************************************************)
Formats == {"B", "b", "h"}

\* representable values of each format, extremes included
PixelValues(fmt) ==
    CASE fmt = "B" -> <<0, 255, 1, 128>>
      [] fmt = "b" -> <<-128, 127, -1, 0>>
      [] fmt = "H" -> <<0, 65535, 256, 255>>
      [] fmt = "h" -> <<-32768, 32767, -1, 256>>
      [] fmt = "i" -> <<-2147483647, 2147483647, -1, 65536>>

\* the array of shape `shape` whose k-th element is the (k + seed)-th value
Pattern(shape, fmt, seed) ==
    [shape |-> shape,
     flat |-> [k \in 1..Prod(shape) |-> PixelValues(fmt)[((k + seed) % 4) + 1]]]

\* a file content of len bytes, all neighbouring bytes distinct
FileBytes(len) == [k \in 1..len |-> (37 * k + 11) % 256]

Descriptors ==
    [hdrSize : 0..MaxHdr,
     Shape : (0..MaxFrames) \X (0..MaxSide) \X (1..MaxSide),
     PixelFormat : Formats,
     MaxBufferSize : {MaxBudget, DefaultMaxBufferSize}]

\* declared size of the file of descriptor d, and of one of its frames
FrameBytes(d) == d.Shape[2] * d.Shape[3] * DataDepth(d.PixelFormat)
DeclaredBytes(d) == d.hdrSize + d.Shape[1] * FrameBytes(d)

\* the file a Store is bound to: absent, exactly as declared, or one frame
\* longer than declared
InitialFiles(d) ==
    {[exists |-> FALSE, data |-> <<>>]} \cup
    {[exists |-> TRUE, data |-> FileBytes(n)] :
        n \in {DeclaredBytes(d), DeclaredBytes(d) + Max(1, FrameBytes(d))}}

\* frame ranges given to Read and Export without a ROI
ZRanges ==
    {<<>>} \cup {<<s, -1>> : s \in {0, 1}}
           \cup {<<s, e, 1>> : s \in 0..MaxFrames, e \in 0..MaxFrames}
           \cup {<<0, e, 2>> : e \in 0..MaxFrames}

\* ROIs: absent, the full frame, a column range that is not the full width,
\* a range starting at row 1, an empty range
ROIs == {<<>>, <<0, 0, -1, -1>>, <<1, 0, -1, -1>>, <<0, 1, 1, 1>>, <<0, 0, -1, 0>>}

\* the (zRange, cropROI) pairs given to Read
ReadArgs ==
    {<<zr, <<>>>> : zr \in ZRanges} \cup
    {<<zr, roi>> : zr \in {<<>>, <<1, -1>>, <<0, MaxFrames, 2>>}, roi \in ROIs}

\* the (zRange, cropROI) pairs given to Export
ExportArgs ==
    {<<zr, roi>> : zr \in {<<>>, <<0, MaxFrames, 2>>},
                   roi \in {<<>>, <<1, 0, -1, -1>>, <<0, 1, 1, 1>>}}

Headers == {[k \in 1..n |-> [format |-> "B", value |-> 6 + k]] : n \in 0..MaxHdr}

(***************************************************************************)
(* The Store as a state machine: a caller issues one call at a time and    *)
(* looks at what it returned (res) before issuing the next.                *)
(***************************************************************************)
Idle ==
    [op |-> "idle", zr |-> <<>>, roi |-> <<>>, idx |-> 0, num |-> 0,
     f1 |-> FALSE, f2 |-> FALSE, data |-> NoArr, hdr |-> <<>>, name |-> None,
     kind |-> "ok", val |-> NoArr, io |-> <<>>, chunks |-> <<>>,
     pre |-> [files |-> <<>>, rh |-> None, wh |-> None, wbuf |-> <<>>]]

Pre == [files |-> files, rh |-> rh, wh |-> wh, wbuf |-> wbuf]

NotWritten == [valid |-> FALSE, data |-> NoArr, nwrites |-> 0]

\* the history variable after a call: a WriteData that opened the write handle
\* itself (and so created or truncated the file) and returned sets it; any
\* other change of the file's bytes clears it
WrittenAfter(call, o) ==
    IF call.op = "WriteData" /\ wh = None /\ o.kind = "ok"
    THEN [valid |-> TRUE, data |-> call.data, nwrites |-> Len(o.s.chunks)]
    ELSE IF o.s.files[FileName] # files[FileName] THEN NotWritten
    ELSE written

\* the Store's state after the call, and what the caller sees of it
Commit(call, o) ==
    /\ written' = WrittenAfter(call, o)
    /\ files' = o.s.files
    /\ rh' = o.s.rh
    /\ wh' = o.s.wh
    /\ wbuf' = o.s.wbuf
    /\ nOpenR' = o.s.nOpenR
    /\ nOpenW' = o.s.nOpenW
    /\ res' = [call EXCEPT !.kind = o.kind, !.val = o.val, !.io = o.s.io,
                           !.chunks = o.s.chunks, !.pre = Pre]
    /\ UNCHANGED <<desc, pin, pout>>

StoreInit ==
    /\ desc \in Descriptors
    /\ \E f \in InitialFiles(desc) :
          files = [n \in FileNames |->
                      IF n = FileName THEN f ELSE [exists |-> FALSE, data |-> <<>>]]
    /\ rh = None
    /\ wh = None
    /\ wbuf = <<>>
    /\ nOpenR = 0
    /\ nOpenW = 0
    /\ res = Idle
    /\ written = NotWritten
    /\ pin = <<>>
    /\ pout = <<>>

\* bytes already written through the open write handle.  A write handle that
\* is kept open takes appends without end; the model issues a writing call
\* only while at most a header has been written.
Written == IF wh = None THEN 0 ELSE Len(files[wh].data) + Len(wbuf)

CallOpenForReading ==
    /\ res.op = "idle"
    /\ \E fName \in {None} :
          Commit([Idle EXCEPT !.op = "OpenForReading", !.name = fName],
                 OpenForReading(Cur, fName))

CallOpenForWriting ==
    /\ res.op = "idle"
    /\ Written <= MaxHdr
    /\ \E fName \in {None, ExportName}, hdr \in Headers :
          Commit([Idle EXCEPT !.op = "OpenForWriting", !.name = fName, !.hdr = hdr],
                 OpenForWriting(Cur, fName, hdr))

CallRead ==
    /\ res.op = "idle"
    /\ \E a \in ReadArgs, closeAfter \in BOOLEAN :
          Commit([Idle EXCEPT !.op = "Read", !.zr = a[1], !.roi = a[2], !.f1 = closeAfter],
                 Read(Cur, a[1], a[2], closeAfter))

CallGetImage ==
    /\ res.op = "idle"
    /\ \E idx \in 0..MaxFrames, roi \in ROIs :
          Commit([Idle EXCEPT !.op = "GetImage", !.idx = idx, !.roi = roi],
                 GetImage(Cur, idx, roi))

CallGetStack ==
    /\ res.op = "idle"
    /\ \E idx \in 0..MaxFrames, num \in -1..MaxFrames :
          Commit([Idle EXCEPT !.op = "GetStack", !.idx = idx, !.num = num],
                 GetStack(Cur, idx, num))

CallWriteData ==
    /\ res.op = "idle"
    /\ Written <= MaxHdr
    /\ \E n \in 0..MaxFrames, seed \in 0..MaxSeed, closeAfter \in BOOLEAN :
          LET X == Pattern(<<n, ImgHeight, ImgWidth>>, desc.PixelFormat, seed)
          IN Commit([Idle EXCEPT !.op = "WriteData", !.data = X, !.f1 = closeAfter],
                    WriteData(Cur, X, closeAfter))

CallExport ==
    /\ res.op = "idle"
    /\ Written <= MaxHdr
    /\ \E a \in ExportArgs :
          Commit([Idle EXCEPT !.op = "Export", !.zr = a[1], !.roi = a[2], !.name = ExportName],
                 Export(Cur, ExportName, a[1], a[2]))

CallClose ==
    /\ res.op = "idle"
    /\ \E read \in BOOLEAN, write \in BOOLEAN :
          Commit([Idle EXCEPT !.op = "Close", !.f1 = read, !.f2 = write],
                 Out(Close(Cur, read, write), "ok", NoArr))

\* the caller has looked at the outcome and is ready for its next call
Return ==
    /\ res.op # "idle"
    /\ res' = Idle
    /\ UNCHANGED <<desc, files, rh, wh, wbuf, nOpenR, nOpenW, written, pin, pout>>

\* the calls that read and write the Store's own file
NextIO ==
    \/ CallOpenForReading
    \/ CallRead
    \/ CallGetImage
    \/ CallGetStack
    \/ CallWriteData
    \/ CallClose
    \/ Return

Spec == StoreInit /\ [][NextIO]_vars

\* every call, on the Stores of one shape (one row, so that some ROIs are
\* valid and some are not), one pixel format and the default buffer size
HandleInit ==
    /\ StoreInit
    /\ desc.Shape = <<MaxFrames, 1, MaxSide>>
    /\ desc.PixelFormat = "B"
    /\ desc.MaxBufferSize = DefaultMaxBufferSize

NextAll ==
    \/ CallOpenForReading
    \/ CallOpenForWriting
    \/ CallRead
    \/ CallGetImage
    \/ CallGetStack
    \/ CallWriteData
    \/ CallExport
    \/ CallClose
    \/ Return

SpecHandles == HandleInit /\ [][NextAll]_vars

(***************************************************************************)
(* ValidateROI as a free function: the input is drawn, the call applied    *)
(***************************************************************************)
NotCalled == [kind |-> "none", val |-> <<>>]

ROIInputs ==
    [ROI : {<<>>} \cup ((-1..MaxRoi) \X (-1..MaxRoi) \X (-1..MaxRoi) \X (-1..MaxRoi)),
     ImageShape : (0..MaxRoi) \X (0..MaxRoi),
     replaceNone : BOOLEAN]

\* the Store variables, which the free functions do not touch
StoreUnused ==
    /\ desc = [hdrSize |-> 0, Shape |-> <<0, 0, 0>>, PixelFormat |-> "B",
               MaxBufferSize |-> DefaultMaxBufferSize]
    /\ files = [n \in FileNames |-> [exists |-> FALSE, data |-> <<>>]]
    /\ rh = None /\ wh = None /\ wbuf = <<>>
    /\ nOpenR = 0 /\ nOpenW = 0
    /\ res = Idle /\ written = NotWritten

ROIInit ==
    /\ StoreUnused
    /\ pin \in ROIInputs
    /\ pout = NotCalled

CallValidateROI ==
    /\ pout.kind = "none"
    /\ pout' = ValidateROI(pin.ROI, pin.ImageShape, pin.replaceNone)
    /\ UNCHANGED <<desc, files, rh, wh, wbuf, nOpenR, nOpenW, res, written, pin>>

SpecROI == ROIInit /\ [][CallValidateROI]_vars

(***************************************************************************)
(* MergeMIfiles.  An input is an MIfile given by [shape, fmt, seed]: its    *)
(* declared shape and pixel format, and the pattern its file holds.        *)
(***************************************************************************)
\* cur_mifile.Read(closeAfter=True) of an input whose file is as declared
ReadInput(inp) == Pattern(inp.shape, inp.fmt, inp.seed)

\* zero-based coordinate of the p-th (1-based) element of an array of shape s
CoordOf(p, s) ==
    <<(p - 1) \div (s[2] * s[3]), ((p - 1) \div s[3]) % s[2], (p - 1) % s[3]>>

\* 1-based position of the element at zero-based coordinate c, shape s
PosOf(c, s) == (c[1] * s[2] + c[2]) * s[3] + c[3] + 1

\* element at coordinate c of a followed by b along zero-based axis ax
AppendedAt(a, b, ax, c) ==
    IF c[ax + 1] < a.shape[ax + 1]
    THEN a.flat[PosOf(c, a.shape)]
    ELSE b.flat[PosOf([c EXCEPT ![ax + 1] = @ - a.shape[ax + 1]], b.shape)]

AppendedShape(a, b, ax) == [a.shape EXCEPT ![ax + 1] = @ + b.shape[ax + 1]]

\* np.append(a, b, axis=ax) of two 3D arrays
NpAppend(a, b, ax) ==
    IF \E i \in 1..3 : i # ax + 1 /\ a.shape[i] # b.shape[i]
    THEN [kind |-> "ValueError", val |-> NoArr]
    ELSE [kind |-> "ok",
          val |-> [shape |-> AppendedShape(a, b, ax),
                   flat |-> [p \in 1..Prod(AppendedShape(a, b, ax)) |->
                                AppendedAt(a, b, ax, CoordOf(p, AppendedShape(a, b, ax)))]]]

\* MergeMIfiles, the loop over MIfileList from its k-th element on; ax is
\* MergeAxis, shape and fmt are out_meta['shape'] and out_meta['px_format']
RECURSIVE MergeScan(_, _, _, _, _)

\* the loop body from the first-input test on (the merge-axis extent is
\* already added to shape)
MergeCheck(list, k, ax, shape, fmt) ==
    IF shape[2] = 0
    THEN MergeScan(list, k + 1, ax,
                   [i \in 1..3 |-> IF i # ax + 1 THEN list[k].shape[i] ELSE shape[i]],
                   list[k].fmt)
    ELSE IF \E i \in 1..3 : i # ax + 1 /\ shape[i] # list[k].shape[i]
    THEN [kind |-> "IOError", shape |-> shape, fmt |-> fmt, axis |-> ax]
    ELSE IF fmt # list[k].fmt
    THEN [kind |-> "IOError", shape |-> shape, fmt |-> fmt, axis |-> ax]
    ELSE MergeScan(list, k + 1, ax, shape, fmt)

\* the loop body once a negative MergeAxis is resolved
MergeAdd(list, k, ax, shape, fmt) ==
    MergeCheck(list, k, ax, [shape EXCEPT ![ax + 1] = @ + list[k].shape[ax + 1]], fmt)

MergeScan(list, k, ax, shape, fmt) ==
    IF k > Len(list)
    THEN [kind |-> "ok", shape |-> shape, fmt |-> fmt, axis |-> ax]
    ELSE MergeAdd(list, k, IF ax < 0 THEN ax + 3 ELSE ax, shape, fmt)

\* MergeMIfiles, MergeAxis == 0: one WriteData per input, in list order
MergeFrames(list, fmt) ==
    Flatten([k \in 1..Len(list) |-> ImgsToBytes(ReadInput(list[k]), fmt)])

\* MergeMIfiles, MergeAxis != 0: the loop that appends to write_data; at
\* every iteration it reads cur_mifile, the variable the first loop left at
\* the last element of MIfileList
RECURSIVE MergeAppend(_, _, _, _)
MergeAppend(acc, list, midx, ax) ==
    IF acc.kind # "ok" \/ midx > Len(list) THEN acc
    ELSE MergeAppend(NpAppend(acc.val, ReadInput(list[Len(list)]), ax), list, midx + 1, ax)

\* the WriteData of the appended array
MergeWriteAppended(acc, m) ==
    IF acc.kind # "ok"
    THEN [kind |-> acc.kind, shape |-> m.shape, fmt |-> m.fmt, bytes |-> <<>>]
    ELSE [kind |-> "ok", shape |-> m.shape, fmt |-> m.fmt,
          bytes |-> ImgsToBytes(acc.val, m.fmt)]

\* MergeMIfiles after the loop over MIfileList returned or raised m
MergeWrite(list, m) ==
    IF m.kind # "ok"
    THEN [kind |-> m.kind, shape |-> m.shape, fmt |-> m.fmt, bytes |-> <<>>]
    ELSE IF m.axis = 0
    THEN [kind |-> "ok", shape |-> m.shape, fmt |-> m.fmt,
          bytes |-> MergeFrames(list, m.fmt)]
    ELSE MergeWriteAppended(
            MergeAppend([kind |-> "ok", val |-> ReadInput(list[1])], list, 2, m.axis), m)

\* MergeMIfiles(MergedFileName, MIfileList, MergeAxis=MergeAxis): the shape
\* and format of the output Store and the bytes written to its file
MergeMIfiles(MIfileList, MergeAxis) ==
    MergeWrite(MIfileList, MergeScan(MIfileList, 1, MergeAxis, <<0, 0, 0>>, None))

MergeShapes == (0..MaxExtent) \X (0..MaxExtent) \X (0..MaxExtent)

\* lists of 1..MaxInputs inputs; the k-th input's file holds pattern k
MergeLists ==
    UNION {[1..n -> [shape : MergeShapes, fmt : {"B", "h"}]] : n \in 1..MaxInputs}

MergeInit ==
    /\ StoreUnused
    /\ \E l \in MergeLists, ax \in -3..2 :
          pin = [axis |-> ax,
                 list |-> [k \in 1..Len(l) |->
                              [shape |-> l[k].shape, fmt |-> l[k].fmt, seed |-> k]]]
    /\ pout = NotCalled

CallMerge ==
    /\ pout.kind = "none"
    /\ pout' = MergeMIfiles(pin.list, pin.axis)
    /\ UNCHANGED <<desc, files, rh, wh, wbuf, nOpenR, nOpenW, res, written, pin>>

SpecMerge == MergeInit /\ [][CallMerge]_vars

(***************************************************************************)
(* Properties of the Store                                                 *)
(***************************************************************************)
\* the file the last call read from, as it was when the call began
ReadSource == IF res.pre.rh = None THEN FileName ELSE res.pre.rh
ReadSourceData == res.pre.files[ReadSource].data

\* the frame indices a Read with the recorded zRange selects
SelectedByRead ==
    PyRange(Validate_zRange(res.zr, ImgNumber)[1], Validate_zRange(res.zr, ImgNumber)[2],
            Validate_zRange(res.zr, ImgNumber)[3])

\* the pixels of the frames idxs of the file bytes F, frame after frame
FramesAt(F, idxs) ==
    Flatten([k \in 1..Len(idxs) |->
        [p \in 1..PxPerImg |->
            UnpackInt(SubSeq(F, desc.hdrSize + (idxs[k] * PxPerImg + p - 1) * PixelDepth + 1,
                                desc.hdrSize + (idxs[k] * PxPerImg + p) * PixelDepth),
                      IsSigned(desc.PixelFormat))]])

\* the last call was GetStack(0, frameCount) through an open read handle, on
\* the file that WriteData(X) filled and that has been closed for writing
RoundTripRead ==
    /\ written.valid
    /\ written.data.shape = desc.Shape
    /\ res.op = "GetStack" /\ res.idx = 0 /\ res.num = ImgNumber
    /\ res.pre.rh = FileName
    /\ res.pre.wh = None

\* C1 as stated: for any header length, WriteData(X), Close(), then
\* ReadFrameStack(0, frameCount) returns X, values and shape.
C1_RoundTripAnyHeader ==
    RoundTripRead => (res.kind = "ok" /\ res.val = written.data)

\* C1 amended: for a Store whose declared header length is 0, WriteData(X)
\* into a fresh file, Close(), then ReadFrameStack(0, frameCount) through an
\* open read handle returns X with the same values and the same shape,
\* whether WriteData wrote X in one call or in chunks.
C1_RoundTripNoHeader ==
    (RoundTripRead /\ desc.hdrSize = 0) => (res.kind = "ok" /\ res.val = written.data)

\* a round trip of a non-empty array that WriteData split into chunks
C1_Witness ==
    /\ RoundTripRead /\ desc.hdrSize = 0
    /\ written.nwrites >= 2
    /\ res.kind = "ok" /\ res.val.flat # <<>>

\* C2: a Read without ROI whose range lies within the declared frames of a
\* file that holds them returns exactly the frames at start, start+step, ...
\* below end, in that order (none when start >= end).  Stated for the Stores
\* whose frames hold at least one pixel and the ranges that start at one of
\* the declared frames.
C2_ReadReturnsRange ==
    ( /\ res.op = "Read" /\ res.roi = <<>>
      /\ PxPerImg >= 1
      /\ Validate_zRange(res.zr, ImgNumber)[1] < ImgNumber
      /\ res.pre.files[ReadSource].exists
      /\ Len(ReadSourceData) >= DeclaredBytes(desc)
      /\ \A k \in 1..Len(SelectedByRead) : SelectedByRead[k] < ImgNumber )
    => ( /\ res.kind = "ok"
         /\ res.val.shape[1] = Len(SelectedByRead)
         /\ res.val.flat = FramesAt(ReadSourceData, SelectedByRead) )

\* the last call asked for a frame at or past the declared frame count
SelectsPastEnd ==
    \/ /\ res.op = "GetStack"
       /\ (IF res.num < 0 THEN ImgNumber - res.idx ELSE res.num) >= 1
       /\ res.idx + (IF res.num < 0 THEN ImgNumber - res.idx ELSE res.num) > ImgNumber
    \/ res.op = "GetImage" /\ res.idx >= ImgNumber
    \/ /\ res.op = "Read"
       /\ \E k \in 1..Len(SelectedByRead) : SelectedByRead[k] >= ImgNumber

\* the last call was a read that had a read handle to read through, with a
\* ROI (if any) that passes validation
ReadThroughHandle ==
    /\ res.op \in {"GetStack", "GetImage", "Read"}
    /\ \/ res.pre.rh # None
       \/ res.op = "Read" /\ res.pre.files[FileName].exists
    /\ ValidateROI(res.roi, <<ImgHeight, ImgWidth>>, FALSE).kind = "ok"

\* the recorded ROI (the full frame when absent) holds at least one pixel
AsksForPixels ==
    /\ ValidateROI(res.roi, <<ImgHeight, ImgWidth>>, TRUE).val[3] > 0
    /\ ValidateROI(res.roi, <<ImgHeight, ImgWidth>>, TRUE).val[4] > 0

\* C3 as stated: whatever the file holds, a request that selects a frame at
\* or past the declared frame count fails with the end-of-file error.
\* Stated for the requests that ask for at least one pixel of such a frame.
C3_PastEndAnyFile ==
    (SelectsPastEnd /\ ReadThroughHandle /\ AsksForPixels)
    => (res.kind = "EOFError" /\ res.val = NoArr)

\* C3 with the file bounded but empty requests included (it does not hold: a
\* request for no pixel reads no byte and returns an empty array)
C3_PastEndEmptyRequest ==
    (SelectsPastEnd /\ ReadThroughHandle /\ Len(ReadSourceData) <= DeclaredBytes(desc))
    => (res.kind = "EOFError" /\ res.val = NoArr)

\* C3 amended: when the file holds no more bytes than the header plus the
\* declared frames, a request for at least one pixel of a frame at or past
\* the declared frame count fails with the end-of-file error and returns
\* no data.
C3_PastEndOfDeclaredFile ==
    ( /\ SelectsPastEnd /\ ReadThroughHandle /\ AsksForPixels
      /\ Len(ReadSourceData) <= DeclaredBytes(desc) )
    => (res.kind = "EOFError" /\ res.val = NoArr)

\* a Read whose first frames exist and whose last frame is past the end
C3_Witness ==
    /\ SelectsPastEnd /\ ReadThroughHandle /\ AsksForPixels
    /\ Len(ReadSourceData) = DeclaredBytes(desc)
    /\ res.op = "Read" /\ ImgNumber >= 1 /\ SelectedByRead[1] < ImgNumber
    /\ res.kind = "EOFError"

\* C8: after Close(closeRead, closeWrite) the read handle is closed if
\* closeRead and unchanged otherwise, the write handle is closed if
\* closeWrite and unchanged otherwise.
C8_CloseReleasesRequested ==
    res.op = "Close" =>
        /\ rh = (IF res.f1 THEN None ELSE res.pre.rh)
        /\ wh = (IF res.f2 THEN None ELSE res.pre.wh)

\* C9: the Store holds at most one open read handle and one open write
\* handle, each open handle is the one in its slot, and an open request made
\* while the slot holds a handle opens no file and keeps the handle.
C9_HandleInvariant ==
    /\ nOpenR = (IF rh = None THEN 0 ELSE 1)
    /\ nOpenW = (IF wh = None THEN 0 ELSE 1)
    /\ res.pre.rh # None => \A k \in 1..Len(res.io) : res.io[k] # "open_r"
    /\ res.pre.wh # None => \A k \in 1..Len(res.io) : res.io[k] # "open_w"
    /\ (res.op = "OpenForReading" /\ res.pre.rh # None) => rh = res.pre.rh
    /\ (res.op = "OpenForWriting" /\ res.pre.wh # None) => wh = res.pre.wh

\* an open request for each slot made while both slots hold a handle
C9_Witness ==
    /\ res.op \in {"OpenForReading", "OpenForWriting"}
    /\ res.pre.rh # None /\ res.pre.wh # None
    /\ res.kind = "ok"

\* C10: when Read, ReadFrame or Export raises the ROI validation error, the
\* call has performed no file operation and neither handle slot has changed.
C10_ValidationBeforeIO ==
    (res.op \in {"Read", "GetImage", "Export"} /\ res.kind = "AssertionError")
    => ( /\ res.io = <<>>
         /\ files = res.pre.files
         /\ rh = res.pre.rh /\ wh = res.pre.wh )

\* the last call was a WriteData that took the chunked path: the array is
\* larger than the buffer budget, one frame of it is not
ChunkedWrite ==
    /\ res.op = "WriteData" /\ res.kind = "ok"
    /\ GetSizeOf(Len(res.data.flat)) > desc.MaxBufferSize
    /\ GetSizeOf(Prod(Tail(res.data.shape))) <= desc.MaxBufferSize

\* the chunks of the last WriteData are runs of whole frames that together
\* hold every element of the array
WholeFrameChunks ==
    /\ \A k \in 1..Len(res.chunks) :
          /\ res.chunks[k] >= Prod(Tail(res.data.shape))
          /\ res.chunks[k] % Prod(Tail(res.data.shape)) = 0
    /\ Len(Flatten([k \in 1..Len(res.chunks) |-> [j \in 1..res.chunks[k] |-> k]]))
          = Len(res.data.flat)

\* C11: on the chunked path every chunk WriteData writes is a run of whole
\* frames whose element count times the pixel byte depth is at most the
\* buffer budget.
C11_ChunkWithinBudget ==
    ChunkedWrite
    => ( /\ WholeFrameChunks
         /\ \A k \in 1..Len(res.chunks) :
               res.chunks[k] * PixelDepth <= desc.MaxBufferSize )

(***************************************************************************)
(* Properties of MergeMIfiles                                              *)
(***************************************************************************)
\* the merge axis of the call, resolved
Axis == IF pin.axis < 0 THEN pin.axis + 3 ELSE pin.axis

\* the inputs agree on every extent off the merge axis and on the format
Compatible ==
    \A j \in 1..Len(pin.list), k \in 1..Len(pin.list) :
        /\ pin.list[j].fmt = pin.list[k].fmt
        /\ \A i \in 1..3 : i # Axis + 1 => pin.list[j].shape[i] = pin.list[k].shape[i]

\* no input is empty along any axis
Solid == \A k \in 1..Len(pin.list), i \in 1..3 : pin.list[k].shape[i] >= 1

\* every input has frames and columns (its height alone may be zero)
FramesAndColumns ==
    \A k \in 1..Len(pin.list) : pin.list[k].shape[1] >= 1 /\ pin.list[k].shape[3] >= 1

\* the inputs' contents, one after the other along zero-based axis ax
RECURSIVE InOrder(_, _, _)
InOrder(acc, k, ax) ==
    IF k > Len(pin.list) THEN acc
    ELSE InOrder(NpAppend(acc, ReadInput(pin.list[k]), ax).val, k + 1, ax)

\* C4: when Merge completes, the bytes it wrote are the inputs' contents,
\* each once and in list order, joined along the merge axis.  Stated for the
\* lists of non-empty inputs that agree off the merge axis.
C4_MergeContent ==
    (pout.kind = "ok" /\ Compatible /\ Solid)
    => pout.bytes = ImgsToBytes(InOrder(ReadInput(pin.list[1]), 2, Axis), pout.fmt)

\* C5: non-empty inputs that agree on the format and on every extent off
\* the merge axis are merged without error, into the shape that sums the
\* merge-axis extents and keeps the common other extents.
C5_MergeShape ==
    (pout.kind # "none" /\ Compatible /\ Solid)
    => ( /\ pout.kind = "ok"
         /\ pout.shape = InOrder(ReadInput(pin.list[1]), 2, Axis).shape )

\* C6: a list of inputs with frames and columns in which two inputs differ
\* in an extent off the merge axis or in the pixel format is refused with
\* the mismatch error.
C6_MergeRejects ==
    (pout.kind # "none" /\ ~Compatible /\ FramesAndColumns) => pout.kind = "IOError"

(***************************************************************************)
(* Properties of ValidateROI                                               *)
(***************************************************************************)
\* a ROI of the data model: width and height are -1 or not negative
\* (left and top are any integer; the validator refuses the negative ones)
Cols == pin.ImageShape[2]
Rows == pin.ImageShape[1]
ResolvedWidth == IF pin.ROI[3] = -1 THEN Cols - pin.ROI[1] ELSE pin.ROI[3]
ResolvedHeight == IF pin.ROI[4] = -1 THEN Rows - pin.ROI[2] ELSE pin.ROI[4]

ROIMustFail ==
    \/ pin.ROI[1] < 0 \/ pin.ROI[1] >= Cols
    \/ pin.ROI[2] < 0 \/ pin.ROI[2] >= Rows
    \/ pin.ROI[1] + ResolvedWidth > Cols
    \/ pin.ROI[2] + ResolvedHeight > Rows

\* C7: ValidateROI fails exactly on the ROIs whose corner is outside the
\* frame or whose resolved rectangle exceeds it; otherwise it returns the
\* ROI with the -1 entries resolved, a rectangle within the frame; an
\* absent ROI gives the full frame if replaceAbsent, absent otherwise.
C7_ValidateROI ==
    pout.kind # "none" =>
        IF pin.ROI = <<>>
        THEN /\ pout.kind = "ok"
             /\ pout.val = (IF pin.replaceNone THEN <<0, 0, Cols, Rows>> ELSE <<>>)
        ELSE IF ROIMustFail
        THEN pout.kind = "AssertionError"
        ELSE /\ pout.kind = "ok"
             /\ pout.val = <<pin.ROI[1], pin.ROI[2], ResolvedWidth, ResolvedHeight>>
             /\ 0 <= pout.val[1] /\ 0 <= pout.val[2]
             /\ pout.val[3] >= 0 /\ pout.val[4] >= 0
             /\ pout.val[1] + pout.val[3] <= Cols
             /\ pout.val[2] + pout.val[4] <= Rows

\* a ROI with both -1 entries resolved, away from the frame's corner
C7_Witness ==
    /\ pout.kind = "ok" /\ pin.ROI # <<>>
    /\ pin.ROI[1] > 0 /\ pin.ROI[2] > 0
    /\ pin.ROI[3] = -1 /\ pin.ROI[4] = -1
    /\ pout.val[3] > 0 /\ pout.val[4] > 0

====
